---- MODULE Spec2Model ----
(***************************************************************************)
(* Dynamic pathfinding agent (src/main.py): the Grid, the two informed     *)
(* searches (A* and Greedy Best-First), the Agent state machine and the    *)
(* App's replanning coordinator, as a state machine.                       *)
(*                                                                         *)
(* Cells are identified by their position <<row, col>> (0-based, as in the *)
(* source).  A heuristic or priority value n + sqrt(d) is kept exactly as  *)
(* the pair <<n, d>> (d = 0 or d not a perfect square), so that the float  *)
(* comparisons of the heap are decided exactly.                            *)
(***************************************************************************)
EXTENDS Integers, Sequences, FiniteSets, TLC

(* ---------------------------------------------------------------------- *)
(* Bounds of the model                                                     *)
(* ---------------------------------------------------------------------- *)
Rows == 2
Cols == 3
MaxWalls == 2
MaxPathLen == 3
MaxNodes == 11
MaxLog == 5

(* ---------------------------------------------------------------------- *)
(* SECTION 1 - grid model                                                  *)
(* ---------------------------------------------------------------------- *)
EMPTY == 0
WALL == 1
START == 2
GOAL == 3

Inf == 1000
None == <<>>

(* grid, agent, app : the program's objects.  last : the operation that   *)
(* ran last, with its inputs and what it returned.  log : what the calls   *)
(* made so far at the library level returned.  steps : the number of       *)
(* step() calls since set_path handed the agent a path without a Wall,     *)
(* while the path stayed free of Walls and no other method of the agent    *)
(* was called; -1 otherwise.                                               *)
VARIABLES grid, agent, app, last, log, steps

vars == <<grid, agent, app, last, log, steps>>

Positions(rows, cols) == (0 .. rows - 1) \X (0 .. cols - 1)

Abs(x) == IF x < 0 THEN -x ELSE x

\* Cell.__init__ : a fresh cell
NewCell ==
  [cell_type |-> EMPTY, g |-> Inf, h |-> <<0, 0>>, f |-> <<Inf, 0>>,
   parent |-> None, in_open |-> FALSE, in_closed |-> FALSE, on_path |-> FALSE]

\* Cell.is_walkable
is_walkable(c) == c.cell_type # WALL

\* reset_search as it would be without the line that restores g
reset_search_keeps_g(c) ==
  [c EXCEPT !.h = <<0, 0>>, !.f = <<Inf, 0>>, !.parent = None,
            !.in_open = FALSE, !.in_closed = FALSE, !.on_path = FALSE]

\* Cell.reset_search
reset_search(c) ==
  [c EXCEPT !.g = Inf, !.h = <<0, 0>>, !.f = <<Inf, 0>>, !.parent = None,
            !.in_open = FALSE, !.in_closed = FALSE, !.on_path = FALSE]

\* get as it would be with only the upper bounds tested: a negative index
\* of a Python list counts from its end
get_wraps(G, row, col) ==
  IF row < G.rows /\ col < G.cols
  THEN <<row % G.rows, col % G.cols>>
  ELSE None

\* Grid.get : the position itself when in bounds, None otherwise
get(G, row, col) ==
  IF 0 <= row /\ row < G.rows /\ 0 <= col /\ col < G.cols
  THEN <<row, col>> ELSE None

\* Grid._place_start
place_start(G, p) ==
  LET cleared == IF G.start_cell # None
                 THEN [G.cells EXCEPT ![G.start_cell].cell_type = EMPTY]
                 ELSE G.cells
  IN [G EXCEPT !.cells = [cleared EXCEPT ![p].cell_type = START],
               !.start_cell = p]

\* Grid._place_goal
place_goal(G, p) ==
  LET cleared == IF G.goal_cell # None
                 THEN [G.cells EXCEPT ![G.goal_cell].cell_type = EMPTY]
                 ELSE G.cells
  IN [G EXCEPT !.cells = [cleared EXCEPT ![p].cell_type = GOAL],
               !.goal_cell = p]

\* Grid._set_default_start_goal
set_default_start_goal(G) ==
  place_goal(place_start(G, <<0, 0>>), <<G.rows - 1, G.cols - 1>>)

\* Grid.__init__
NewGrid(rows, cols) ==
  set_default_start_goal(
    [rows |-> rows, cols |-> cols,
     cells |-> [p \in Positions(rows, cols) |-> NewCell],
     start_cell |-> None, goal_cell |-> None])

\* Grid.neighbors : up, down, left, right; in bounds and walkable
\* neighbors as it would be without the is_walkable test
neighbors_any(G, p) ==
  LET at(i) == get(G, p[1] + i[1], p[2] + i[2])
      dirs == <<<<-1, 0>>, <<1, 0>>, <<0, -1>>, <<0, 1>>>>
      RECURSIVE collect(_)
      collect(k) == IF k > Len(dirs) THEN <<>>
                    ELSE IF at(dirs[k]) # None
                    THEN <<at(dirs[k])>> \o collect(k + 1)
                    ELSE collect(k + 1)
  IN collect(1)

\* the directions as they would be with (0, -1) written twice and (0, 1)
\* left out
DirectionsNoRight == << <<-1, 0>>, <<1, 0>>, <<0, -1>>, <<0, -1>> >>

Directions == << <<-1, 0>>, <<1, 0>>, <<0, -1>>, <<0, 1>> >>

neighbors(G, p) ==
  LET nb(i) == get(G, p[1] + Directions[i][1], p[2] + Directions[i][2])
      keep(i) == nb(i) # None /\ is_walkable(G.cells[nb(i)])
      F[i \in 0 .. 4] ==
        IF i = 0 THEN <<>>
        ELSE IF keep(i) THEN Append(F[i - 1], nb(i)) ELSE F[i - 1]
  IN F[4]

\* Grid.toggle_wall
toggle_wall(G, row, col) ==
  LET p == get(G, row, col) IN
  IF p # None /\ G.cells[p].cell_type \notin {START, GOAL}
  THEN [G EXCEPT !.cells[p].cell_type =
                    IF G.cells[p].cell_type = WALL THEN EMPTY ELSE WALL]
  ELSE G

\* place_wall as it would be without the Start / Goal test
place_wall_anywhere(G, row, col) ==
  LET p == get(G, row, col) IN
  IF p # None THEN [G EXCEPT !.cells[p].cell_type = WALL] ELSE G

\* Grid.place_wall
place_wall(G, row, col) ==
  LET p == get(G, row, col) IN
  IF p # None /\ G.cells[p].cell_type \notin {START, GOAL}
  THEN [G EXCEPT !.cells[p].cell_type = WALL]
  ELSE G

\* Grid.remove_wall
remove_wall(G, row, col) ==
  LET p == get(G, row, col) IN
  IF p # None /\ G.cells[p].cell_type = WALL
  THEN [G EXCEPT !.cells[p].cell_type = EMPTY]
  ELSE G

\* Grid.generate_random_maze : `wall` is the set of positions whose random
\* draw fell below the density
generate_random_maze(G, wall) ==
  [G EXCEPT !.cells =
     [p \in DOMAIN G.cells |->
        IF G.cells[p].cell_type \in {START, GOAL} THEN G.cells[p]
        ELSE [G.cells[p] EXCEPT !.cell_type =
                                   IF p \in wall THEN WALL ELSE EMPTY]]]

\* Grid.reset_search_state
reset_search_state(G) ==
  [G EXCEPT !.cells = [p \in DOMAIN G.cells |-> reset_search(G.cells[p])]]

\* Grid.full_reset
full_reset(G) ==
  [G EXCEPT !.cells =
     [p \in DOMAIN G.cells |->
        reset_search(IF G.cells[p].cell_type \notin {START, GOAL}
                     THEN [G.cells[p] EXCEPT !.cell_type = EMPTY]
                     ELSE G.cells[p])]]

\* the candidates as they would be without the on_path test
candidates_on_path(G) ==
  {p \in DOMAIN G.cells : G.cells[p].cell_type = EMPTY}

\* Grid.spawn_random_obstacle : the candidates of the random choice
candidates(G) ==
  {p \in DOMAIN G.cells :
     G.cells[p].cell_type = EMPTY /\ ~G.cells[p].on_path}

\* Grid.spawn_random_obstacle : the grid after `pick` was chosen
spawn_random_obstacle(G, pick) ==
  [G EXCEPT !.cells[pick].cell_type = WALL]

(* ---------------------------------------------------------------------- *)
(* SECTION 2 - heuristics and search algorithms                            *)
(* ---------------------------------------------------------------------- *)

\* math.sqrt on a non-negative integer, exactly: <<r, 0>> when d = r * r,
\* and <<0, d>>, standing for the irrational sqrt(d), otherwise
Sqrt(d) ==
  IF \E r \in 0 .. d : r * r = d
  THEN <<CHOOSE r \in 0 .. d : r * r = d, 0>>
  ELSE <<0, d>>

\* a[1] + sqrt(a[2]) < b[1] + sqrt(b[2]), the float comparison `<` of two
\* priority keys, decided in integer arithmetic
SurdLess(a, b) ==
  LET k == b[1] - a[1]
      m == a[2] - k * k - b[2]
      n == b[2] - a[2] - k * k
  IN IF a[2] = b[2] THEN 0 < k
     ELSE IF k >= 0 THEN m < 0 \/ m * m < 4 * k * k * b[2]
     ELSE n > 0 /\ 4 * k * k * a[2] < n * n

\* number + float, as in `nb.g + nb.h`
SurdPlus(n, a) == <<n + a[1], a[2]>>

heuristic_manhattan(a, b) == <<Abs(a[1] - b[1]) + Abs(a[2] - b[2]), 0>>

heuristic_euclidean(a, b) ==
  Sqrt((a[1] - b[1]) * (a[1] - b[1]) + (a[2] - b[2]) * (a[2] - b[2]))

HeuristicNames == {"Manhattan", "Euclidean"}

\* HEURISTICS[name](a, b)
HEURISTICS(name, a, b) ==
  IF name = "Manhattan" THEN heuristic_manhattan(a, b)
  ELSE heuristic_euclidean(a, b)

\* SearchResult.__init__
NewSearchResult ==
  [path |-> <<>>, nodes_visited |-> 0, path_cost |-> 0, found |-> FALSE]

\* tuple comparison of two heap entries (priority key, insertion counter)
EntryLess(a, b) ==
  SurdLess(a.key, b.key) \/ (a.key = b.key /\ a.seq < b.seq)

\* a pop that takes the largest entry of the heap
HeapMax(heap) ==
  CHOOSE e \in heap : \A o \in heap : o = e \/ EntryLess(o, e)

\* heapq.heappop : the entries of the heap that no other entry precedes in
\* the comparison of (priority key, insertion counter); heappop returns one
\* of them (two entries equal in both are told apart by Cell.__lt__)
HeapMins(heap) == {e \in heap : \A o \in heap : ~EntryLess(o, e)}

\* heapq.heappop : the smallest entry of the heap
HeapMin(heap) ==
  CHOOSE e \in heap : \A o \in heap : o = e \/ EntryLess(e, o)

\* _reconstruct_path, the walk along the parent links: the cells from
\* `node` back to the origin, goal first.  A walk longer than the number of
\* cells has entered a cycle of parent links and never ends: <<None>>.
RECURSIVE ParentChain(_, _, _)
ParentChain(cells, node, fuel) ==
  IF node = None THEN <<>>
  ELSE IF fuel = 0 THEN <<None>>
  ELSE LET rest == ParentChain(cells, cells[node].parent, fuel - 1)
       IN IF rest = <<None>> THEN rest ELSE <<node>> \o rest

\* the path as it would be without path.reverse()
NotReversed(s) == s

Reverse(s) == [i \in 1 .. Len(s) |-> s[Len(s) + 1 - i]]

SeqToSet(s) == {s[i] : i \in 1 .. Len(s)}

\* _reconstruct_path : [path, cells] with the path's cells marked on_path,
\* or hung = TRUE when the walk never ends
reconstruct_path(cells, goal) ==
  LET chain == ParentChain(cells, goal, Cardinality(DOMAIN cells))
      path == Reverse(chain)
  IN IF chain = <<None>>
     THEN [hung |-> TRUE, path |-> <<>>, cells |-> cells]
     ELSE [hung |-> FALSE, path |-> path,
           cells |-> [p \in DOMAIN cells |->
                        IF p \in SeqToSet(path)
                        THEN [cells[p] EXCEPT !.on_path = TRUE]
                        ELSE cells[p]]]

(* A search in progress: the grid with its scratch state, the heap, the   *)
(* insertion counter, the finalized positions (`visited` of greedy_bfs, a  *)
(* set; `expanded` of astar, a function position -> g), the result, and    *)
(* whether the function has returned (done) or loops for ever (hung);     *)
(* entry keeps the grid as the function received it.                       *)

\* greedy_bfs, lines 174-185: before the loop
greedy_init(G, start, goal, hname) ==
  LET h0 == HEURISTICS(hname, start, goal) IN
  [grid |-> [G EXCEPT !.cells[start].h = h0, !.cells[start].f = h0,
                      !.cells[start].g = 0, !.cells[start].in_open = TRUE],
   heap |-> {[key |-> h0, seq |-> 0, cell |-> start]},
   counter |-> 0, seen |-> {}, result |-> NewSearchResult,
   done |-> FALSE, hung |-> FALSE, entry |-> G]

\* the neighbour loop of greedy_bfs as it would be with new_g = current.g
RECURSIVE greedy_relax_free(_, _, _, _, _, _)
greedy_relax_free(s, cur, nbs, i, goal, hname) ==
  IF i > Len(nbs) THEN s
  ELSE
    LET nb == nbs[i]
        c == s.grid.cells
        new_g == c[cur].g
        hv == HEURISTICS(hname, nb, goal)
        c1 == [c EXCEPT ![nb].h = hv, ![nb].f = hv]
    IN IF nb \in s.seen
       THEN greedy_relax_free(s, cur, nbs, i + 1, goal, hname)
       ELSE IF ~c1[nb].in_open \/ new_g < c1[nb].g
       THEN greedy_relax_free(
              [s EXCEPT !.grid.cells = [c1 EXCEPT ![nb].g = new_g,
                                                  ![nb].parent = cur,
                                                  ![nb].in_open = TRUE],
                        !.counter = s.counter + 1,
                        !.heap = s.heap \cup {[key |-> hv,
                                               seq |-> s.counter + 1,
                                               cell |-> nb]}],
              cur, nbs, i + 1, goal, hname)
       ELSE greedy_relax_free([s EXCEPT !.grid.cells = c1],
                              cur, nbs, i + 1, goal, hname)

\* the neighbour loop of greedy_bfs as it would be without the test
\* `if nb.pos in visited: continue`
RECURSIVE greedy_relax_revisits(_, _, _, _, _, _)
greedy_relax_revisits(s, cur, nbs, i, goal, hname) ==
  IF i > Len(nbs) THEN s
  ELSE
    LET nb == nbs[i]
        c == s.grid.cells
        new_g == c[cur].g + 1
        hv == HEURISTICS(hname, nb, goal)
        c1 == [c EXCEPT ![nb].h = hv, ![nb].f = hv]
    IN IF ~c1[nb].in_open \/ new_g < c1[nb].g
       THEN greedy_relax_revisits(
              [s EXCEPT !.grid.cells = [c1 EXCEPT ![nb].g = new_g,
                                                  ![nb].parent = cur,
                                                  ![nb].in_open = TRUE],
                        !.counter = s.counter + 1,
                        !.heap = s.heap \cup {[key |-> hv,
                                               seq |-> s.counter + 1,
                                               cell |-> nb]}],
              cur, nbs, i + 1, goal, hname)
       ELSE greedy_relax_revisits([s EXCEPT !.grid.cells = c1],
                                  cur, nbs, i + 1, goal, hname)

\* greedy_bfs, lines 202-213: the loop over the neighbours of `cur`, from
\* the i-th on
RECURSIVE greedy_relax(_, _, _, _, _, _)
greedy_relax(s, cur, nbs, i, goal, hname) ==
  IF i > Len(nbs) THEN s
  ELSE
    LET nb == nbs[i]
        c == s.grid.cells
        new_g == c[cur].g + 1
        hv == HEURISTICS(hname, nb, goal)
        c1 == [c EXCEPT ![nb].h = hv, ![nb].f = hv]
    IN IF nb \in s.seen
       THEN greedy_relax(s, cur, nbs, i + 1, goal, hname)
       ELSE IF ~c1[nb].in_open \/ new_g < c1[nb].g
       THEN greedy_relax(
              [s EXCEPT !.grid.cells = [c1 EXCEPT ![nb].g = new_g,
                                                  ![nb].parent = cur,
                                                  ![nb].in_open = TRUE],
                        !.counter = s.counter + 1,
                        !.heap = s.heap \cup {[key |-> hv,
                                               seq |-> s.counter + 1,
                                               cell |-> nb]}],
              cur, nbs, i + 1, goal, hname)
       ELSE greedy_relax([s EXCEPT !.grid.cells = c1],
                         cur, nbs, i + 1, goal, hname)

\* greedy_bfs, lines 188-213: what one turn of the while loop does with
\* the entry e that heappop returned
greedy_pop(s, e, goal, hname) ==
  LET cur == e.cell
      popped == [s EXCEPT !.heap = s.heap \ {e}]
  IN IF cur \in s.seen THEN popped
     ELSE
       LET fin == [popped EXCEPT
                     !.seen = s.seen \cup {cur},
                     !.grid.cells[cur].in_open = FALSE,
                     !.grid.cells[cur].in_closed = TRUE,
                     !.result.nodes_visited = s.result.nodes_visited + 1]
       IN IF cur = goal
          THEN LET rp == reconstruct_path(fin.grid.cells, goal) IN
               IF rp.hung THEN [fin EXCEPT !.hung = TRUE]
               ELSE [fin EXCEPT !.grid.cells = rp.cells,
                                !.result.found = TRUE,
                                !.result.path = rp.path,
                                !.result.path_cost = rp.cells[goal].g,
                                !.done = TRUE]
          ELSE greedy_relax(fin, cur, neighbors(fin.grid, cur), 1,
                            goal, hname)

\* greedy_bfs, one turn of the while loop: heappop takes the smallest entry
greedy_step(s, goal, hname) ==
  IF s.heap = {} THEN [s EXCEPT !.done = TRUE]
  ELSE greedy_pop(s, HeapMin(s.heap), goal, hname)

\* astar, lines 221-232: before the loop
astar_init(G, start, goal, hname) ==
  LET h0 == HEURISTICS(hname, start, goal) IN
  [grid |-> [G EXCEPT !.cells[start].g = 0, !.cells[start].h = h0,
                      !.cells[start].f = SurdPlus(0, h0),
                      !.cells[start].in_open = TRUE],
   heap |-> {[key |-> SurdPlus(0, h0), seq |-> 0, cell |-> start]},
   counter |-> 0, seen |-> <<>>, result |-> NewSearchResult,
   done |-> FALSE, hung |-> FALSE, entry |-> G]

\* the neighbour loop of astar as it would be without `counter += 1`
RECURSIVE astar_relax_no_count(_, _, _, _, _, _)
astar_relax_no_count(s, cur, nbs, i, goal, hname) ==
  IF i > Len(nbs) THEN s
  ELSE
    LET nb == nbs[i]
        c == s.grid.cells
        new_g == c[cur].g + 1
        hv == HEURISTICS(hname, nb, goal)
        fv == SurdPlus(new_g, hv)
    IN IF new_g < c[nb].g
       THEN astar_relax_no_count(
              [s EXCEPT !.grid.cells = [c EXCEPT ![nb].g = new_g,
                                                 ![nb].h = hv,
                                                 ![nb].f = fv,
                                                 ![nb].parent = cur,
                                                 ![nb].in_open = TRUE,
                                                 ![nb].in_closed = FALSE],
                        !.heap = s.heap \cup {[key |-> fv,
                                               seq |-> s.counter,
                                               cell |-> nb]}],
              cur, nbs, i + 1, goal, hname)
       ELSE astar_relax_no_count(s, cur, nbs, i + 1, goal, hname)

\* astar, lines 249-259: the loop over the neighbours of `cur`, from the
\* i-th on
RECURSIVE astar_relax(_, _, _, _, _, _)
astar_relax(s, cur, nbs, i, goal, hname) ==
  IF i > Len(nbs) THEN s
  ELSE
    LET nb == nbs[i]
        c == s.grid.cells
        new_g == c[cur].g + 1
        hv == HEURISTICS(hname, nb, goal)
        fv == SurdPlus(new_g, hv)
    IN IF new_g < c[nb].g
       THEN astar_relax(
              [s EXCEPT !.grid.cells = [c EXCEPT ![nb].g = new_g,
                                                 ![nb].h = hv,
                                                 ![nb].f = fv,
                                                 ![nb].parent = cur,
                                                 ![nb].in_open = TRUE,
                                                 ![nb].in_closed = FALSE],
                        !.counter = s.counter + 1,
                        !.heap = s.heap \cup {[key |-> fv,
                                               seq |-> s.counter + 1,
                                               cell |-> nb]}],
              cur, nbs, i + 1, goal, hname)
       ELSE astar_relax(s, cur, nbs, i + 1, goal, hname)

\* astar, lines 235-259: what one turn of the while loop does with the
\* entry e that heappop returned
astar_pop(s, e, goal, hname) ==
  LET cur == e.cell
      popped == [s EXCEPT !.heap = s.heap \ {e}]
  IN IF cur \in DOMAIN s.seen /\ s.seen[cur] <= s.grid.cells[cur].g
     THEN popped
     ELSE
       LET fin == [popped EXCEPT
                     !.seen = [p \in DOMAIN s.seen \cup {cur} |->
                                 IF p = cur THEN s.grid.cells[cur].g
                                 ELSE s.seen[p]],
                     !.grid.cells[cur].in_open = FALSE,
                     !.grid.cells[cur].in_closed = TRUE,
                     !.result.nodes_visited = s.result.nodes_visited + 1]
       IN IF cur = goal
          THEN LET rp == reconstruct_path(fin.grid.cells, goal) IN
               IF rp.hung THEN [fin EXCEPT !.hung = TRUE]
               ELSE [fin EXCEPT !.grid.cells = rp.cells,
                                !.result.found = TRUE,
                                !.result.path = rp.path,
                                !.result.path_cost = rp.cells[goal].g,
                                !.done = TRUE]
          ELSE astar_relax(fin, cur, neighbors(fin.grid, cur), 1,
                           goal, hname)

\* astar, one turn of the while loop: heappop takes the smallest entry
astar_step(s, goal, hname) ==
  IF s.heap = {} THEN [s EXCEPT !.done = TRUE]
  ELSE astar_pop(s, HeapMin(s.heap), goal, hname)

AlgoNames == {"A* Search", "Greedy BFS"}

\* the while loop of greedy_bfs, run until the function returns
RECURSIVE greedy_loop(_, _, _)
greedy_loop(s, goal, hname) ==
  IF s.done \/ s.hung THEN s
  ELSE greedy_loop(greedy_step(s, goal, hname), goal, hname)

\* the while loop of astar, run until the function returns
RECURSIVE astar_loop(_, _, _)
astar_loop(s, goal, hname) ==
  IF s.done \/ s.hung THEN s
  ELSE astar_loop(astar_step(s, goal, hname), goal, hname)

\* greedy_bfs : the final search state (grid with scratch state, result)
greedy_bfs(G, start, goal, hname) ==
  greedy_loop(greedy_init(G, start, goal, hname), goal, hname)

\* astar : the final search state (grid with scratch state, result)
astar(G, start, goal, hname) ==
  astar_loop(astar_init(G, start, goal, hname), goal, hname)

\* run_search
run_search(G, algo, hname) ==
  IF algo = "A* Search"
  THEN astar(G, G.start_cell, G.goal_cell, hname)
  ELSE greedy_bfs(G, G.start_cell, G.goal_cell, hname)

\* replan as it would be without the call of reset_search_state
replan_no_reset(G, current, goal, algo, hname) ==
  IF algo = "A* Search"
  THEN astar(G, current, goal, hname)
  ELSE greedy_bfs(G, current, goal, hname)

\* replan
replan(G, current, goal, algo, hname) ==
  IF algo = "A* Search"
  THEN astar(reset_search_state(G), current, goal, hname)
  ELSE greedy_bfs(reset_search_state(G), current, goal, hname)

(* ---------------------------------------------------------------------- *)
(* SECTION 3 - agent                                                       *)
(* ---------------------------------------------------------------------- *)

\* Agent.__init__
NewAgent ==
  [cell |-> None, path |-> <<>>, path_index |-> 0, moving |-> FALSE,
   reached_goal |-> FALSE, replanning |-> FALSE]

\* Agent.set_path
set_path(a, path) ==
  [a EXCEPT !.path = path, !.path_index = 0, !.moving = (path # <<>>),
            !.reached_goal = FALSE,
            !.cell = IF path # <<>> THEN path[1] ELSE a.cell]

\* step as it would be with the arrival test nxt >= len(path) - 1
step_arrives_early(a, G) ==
  IF ~a.moving \/ a.path = <<>> THEN a
  ELSE IF a.path_index + 1 >= Len(a.path) - 1
  THEN [a EXCEPT !.moving = FALSE, !.reached_goal = TRUE]
  ELSE IF G.cells[a.path[a.path_index + 2]].cell_type = WALL
  THEN [a EXCEPT !.moving = FALSE, !.replanning = TRUE]
  ELSE [a EXCEPT !.path_index = a.path_index + 1,
                 !.cell = a.path[a.path_index + 2]]

\* step as it would be if it set replanning and moved on all the same
step_into_wall(a, G) ==
  IF ~a.moving \/ a.path = <<>> THEN a
  ELSE IF a.path_index + 1 >= Len(a.path)
  THEN [a EXCEPT !.moving = FALSE, !.reached_goal = TRUE]
  ELSE [a EXCEPT !.path_index = a.path_index + 1,
                 !.cell = a.path[a.path_index + 2],
                 !.replanning =
                    (G.cells[a.path[a.path_index + 2]].cell_type = WALL)]

\* step as it would be without the line that assigns self.cell
step_keeps_cell(a, G) ==
  IF ~a.moving \/ a.path = <<>> THEN a
  ELSE IF a.path_index + 1 >= Len(a.path)
  THEN [a EXCEPT !.moving = FALSE, !.reached_goal = TRUE]
  ELSE IF G.cells[a.path[a.path_index + 2]].cell_type = WALL
  THEN [a EXCEPT !.moving = FALSE, !.replanning = TRUE]
  ELSE [a EXCEPT !.path_index = a.path_index + 1]

\* Agent.step : the agent after the call (path_index is 0-based, as in the
\* source: the agent stands on path[path_index + 1] of the TLA+ sequence)
step(a, G) ==
  IF ~a.moving \/ a.path = <<>> THEN a
  ELSE IF a.path_index + 1 >= Len(a.path)
  THEN [a EXCEPT !.moving = FALSE, !.reached_goal = TRUE]
  ELSE IF G.cells[a.path[a.path_index + 2]].cell_type = WALL
  THEN [a EXCEPT !.moving = FALSE, !.replanning = TRUE]
  ELSE [a EXCEPT !.path_index = a.path_index + 1,
                 !.cell = a.path[a.path_index + 2]]

\* Agent.step : the value the call returns
step_ret(a, G) ==
  /\ a.moving
  /\ a.path # <<>>
  /\ a.path_index + 1 < Len(a.path)
  /\ G.cells[a.path[a.path_index + 2]].cell_type # WALL

\* Agent.needs_replan
needs_replan(a) == a.replanning

\* accept_replan as it would be without the line that clears replanning
accept_replan_keeps_flag(a, new_path) ==
  [a EXCEPT !.path = new_path, !.path_index = 0,
            !.moving = (new_path # <<>>),
            !.cell = IF new_path # <<>> THEN new_path[1] ELSE a.cell]

\* Agent.accept_replan
accept_replan(a, new_path) ==
  [a EXCEPT !.path = new_path, !.path_index = 0, !.replanning = FALSE,
            !.moving = (new_path # <<>>),
            !.cell = IF new_path # <<>> THEN new_path[1] ELSE a.cell]

\* Agent.is_path_blocked : path[path_index + 1:] holds a Wall
is_path_blocked(a, G) ==
  \E i \in a.path_index + 2 .. Len(a.path) :
     G.cells[a.path[i]].cell_type = WALL

\* Agent.reset
agent_reset(a) ==
  [a EXCEPT !.path = <<>>, !.path_index = 0, !.moving = FALSE,
            !.reached_goal = FALSE, !.replanning = FALSE, !.cell = None]

(* ---------------------------------------------------------------------- *)
(* SECTION 5 - main application                                            *)
(* ---------------------------------------------------------------------- *)
(* A world W is [grid, agent, app, rp]: the App's objects, and in rp what  *)
(* was observed each time _do_replan returned during the handler that is   *)
(* running.  The "Time (ms)" metric and the two timers are wall-clock      *)
(* readings: whether a timer is due is an input of _update.  The status    *)
(* line is text for the display that the program never reads back.         *)

NoMetrics == [nodes_visited |-> 0, path_cost |-> 0]

\* App.__init__
NewApp ==
  [dd_algo |-> "A* Search", dd_heur |-> "Manhattan", btn_dyn |-> FALSE,
   metrics |-> NoMetrics]

WallCount(G) == Cardinality({p \in DOMAIN G.cells : G.cells[p].cell_type = WALL})

\* App._clear_result
clear_result(W) ==
  [W EXCEPT !.app.metrics = NoMetrics, !.agent = agent_reset(W.agent)]

\* App._do_replan, lines 605-613: the if / else on the result of the
\* search state s that replan returned
replan_outcome(W, s) ==
  IF s.result.found
  THEN [W EXCEPT
          !.grid = s.grid,
          !.agent = accept_replan(W.agent, s.result.path),
          !.app.metrics.nodes_visited =
             W.app.metrics.nodes_visited + s.result.nodes_visited,
          !.app.metrics.path_cost = s.result.path_cost]
  ELSE [W EXCEPT
          !.grid = s.grid,
          !.agent.moving = FALSE]

\* the world `out` that _do_replan leaves of W, with what can be observed
\* of the call on return added to rp: the result of the search, the
\* metrics before and after, and the agent
replan_observed(W, out, res) ==
  [out EXCEPT !.rp = Append(out.rp,
                       [found |-> res.found,
                        res |-> res,
                        before |-> W.app.metrics,
                        after |-> out.app.metrics,
                        was_on |-> W.agent.cell,
                        agent |-> out.agent,
                        blocked |-> is_path_blocked(out.agent, out.grid)])]

\* a search was made during the handler: se keeps whether every cell's
\* scratch state was as Cell.__init__ sets it when the search was entered
search_entered(out, s) ==
  [out EXCEPT !.se = Append(out.se,
     [fresh |-> \A p \in DOMAIN s.entry.cells :
                   [s.entry.cells[p] EXCEPT !.cell_type = EMPTY] = NewCell])]

\* App._do_replan, lines 605-613, with the search state s that replan
\* returned
replan_returned(W, s) ==
  search_entered(replan_observed(W, replan_outcome(W, s), s.result), s)

\* App._do_replan
do_replan(W) ==
  IF W.agent.cell = None \/ W.grid.goal_cell = None THEN W
  ELSE replan_returned(W, replan(W.grid, W.agent.cell, W.grid.goal_cell,
                                 W.app.dd_algo, W.app.dd_heur))

\* App._update, lines 579-583: the periodic agent step
update_step(W, stepDue) ==
  IF W.agent.moving /\ stepDue
  THEN LET stepped == [W EXCEPT !.agent = step(W.agent, W.grid)] IN
       IF ~step_ret(W.agent, W.grid) /\ needs_replan(stepped.agent)
       THEN do_replan(stepped)
       ELSE stepped
  ELSE W

\* App._update, lines 589-590: the world once spawn_random_obstacle has
\* turned W's grid into G by choosing pick, with what can be observed at
\* that point added to sp: the new wall, whether it lies on the agent's
\* path, what is_path_blocked() answers, and whether a replan was already
\* made by this _update
spawn_observed(W, G, pick) ==
  [W EXCEPT !.grid = G,
            !.sp = Append(W.sp,
                     [cell |-> pick,
                      in_path |-> pick \in SeqToSet(W.agent.path),
                      blocked |-> is_path_blocked(W.agent, G),
                      searched |-> W.se # <<>>])]

\* App._update, lines 585-592: dynamic mode; pick is the cell that
\* spawn_random_obstacle chose, None when the timer or the random draw did
\* not let it run or it had no candidate
update_spawn(W, pick) ==
  IF W.app.btn_dyn /\ W.agent.moving /\ pick # None
  THEN LET spawned == spawn_observed(W, spawn_random_obstacle(W.grid, pick),
                                     pick)
       IN IF is_path_blocked(spawned.agent, spawned.grid)
          THEN do_replan(spawned)
          ELSE spawned
  ELSE W

\* App._update, lines 594-596
update_reached(W) ==
  IF W.agent.reached_goal
  THEN [W EXCEPT !.agent.moving = FALSE]
  ELSE W

\* App._update
update(W, stepDue, pick) ==
  update_reached(update_spawn(update_step(W, stepDue), pick))

\* App._run_search, lines 627-636: what is done with the search state s
\* that run_search returned
search_outcome(W, s) ==
  IF s.result.found
  THEN [W EXCEPT
          !.grid = s.grid,
          !.app.metrics = [nodes_visited |-> s.result.nodes_visited,
                           path_cost |-> s.result.path_cost],
          !.agent = set_path(agent_reset(W.agent), s.result.path)]
  ELSE [W EXCEPT
          !.grid = s.grid,
          !.app.metrics = [nodes_visited |-> s.result.nodes_visited,
                           path_cost |-> s.result.path_cost]]

\* App._run_search, lines 627-636, with the search state s that run_search
\* returned
search_returned(W, s) == search_entered(search_outcome(W, s), s)

\* App._run_search
app_run_search(W) ==
  IF W.grid.start_cell = None \/ W.grid.goal_cell = None
  THEN W
  ELSE search_returned(clear_result(W),
                       run_search(reset_search_state(W.grid),
                                  W.app.dd_algo, W.app.dd_heur))

\* App._reset
app_reset(W) ==
  clear_result([W EXCEPT !.grid = full_reset(W.grid),
                         !.agent = agent_reset(W.agent)])

\* App._paint : the stroke's mode is drawing_wall or else erasing_wall.
\* The two flags are set when the left button goes down over a cell
\* (drawing unless that cell is a Wall; lines 549-556) and cleared when it
\* goes up; here the mode is an input of each _paint call.
paint(W, rc, drawing_wall) ==
  IF drawing_wall
  THEN [W EXCEPT !.grid = place_wall(W.grid, rc[1], rc[2])]
  ELSE [W EXCEPT !.grid = remove_wall(W.grid, rc[1], rc[2])]

(* ---------------------------------------------------------------------- *)
(* The App as a state machine: one action per event handler                *)
(* ---------------------------------------------------------------------- *)
World ==
  [grid |-> grid, agent |-> agent, app |-> app,
   rp |-> <<>>, se |-> <<>>, sp |-> <<>>]

NoLast == [op |-> "event"]

\* the grids of Rows x Cols cells the user can paint: at most MaxWalls walls
Layouts ==
  {generate_random_maze(NewGrid(Rows, Cols), wall) :
     wall \in {w \in SUBSET (Positions(Rows, Cols)
                                \ {<<0, 0>>, <<Rows - 1, Cols - 1>>}) :
                 Cardinality(w) <= MaxWalls}}

\* the effect of a handler on the program's objects
Becomes(W) ==
  /\ WallCount(W.grid) <= MaxWalls
  /\ W.app.metrics.nodes_visited <= MaxNodes
  /\ grid' = W.grid
  /\ agent' = W.agent
  /\ app' = W.app

Init ==
  /\ grid = NewGrid(Rows, Cols)
  /\ agent = NewAgent
  /\ app = NewApp
  /\ last = NoLast
  /\ log = <<>>
  /\ steps = -1

RunSearchBtn ==
  /\ Becomes(app_run_search(World))
  /\ last' = [op |-> "run_search", se |-> app_run_search(World).se]
  /\ UNCHANGED <<log, steps>>

ResetBtn ==
  /\ Becomes(app_reset(World))
  /\ last' = [op |-> "event"]
  /\ UNCHANGED <<log, steps>>

RandBtn ==
  /\ \E L \in Layouts :
        Becomes(clear_result(
                  [World EXCEPT !.grid = generate_random_maze(
                     grid, {p \in DOMAIN L.cells : L.cells[p].cell_type = WALL})]))
  /\ last' = [op |-> "event"]
  /\ UNCHANGED <<log, steps>>

DynBtn ==
  /\ Becomes([World EXCEPT !.app.btn_dyn = ~app.btn_dyn])
  /\ last' = [op |-> "event"]
  /\ UNCHANGED <<log, steps>>

SelectAlgo ==
  /\ \E a \in AlgoNames : Becomes([World EXCEPT !.app.dd_algo = a])
  /\ last' = [op |-> "event"]
  /\ UNCHANGED <<log, steps>>

SelectHeur ==
  /\ \E h \in HeuristicNames : Becomes([World EXCEPT !.app.dd_heur = h])
  /\ last' = [op |-> "event"]
  /\ UNCHANGED <<log, steps>>

Paint ==
  /\ \E rc \in DOMAIN grid.cells, drawing_wall \in BOOLEAN :
        Becomes(paint(World, rc, drawing_wall))
  /\ last' = [op |-> "event"]
  /\ UNCHANGED <<log, steps>>

\* the cells spawn_random_obstacle may pick once the periodic step is
\* made, and None when it does not run or has no candidate
Picks(W, stepDue) == candidates(update_step(W, stepDue).grid) \cup {None}

\* last keeps what was observed of the replans the handler made, if any
Updated(W) ==
  /\ Becomes(W)
  /\ last' = IF W.rp = <<>>
             THEN NoLast
             ELSE [op |-> "update", rp |-> W.rp, se |-> W.se]

Update ==
  /\ \E stepDue \in BOOLEAN :
       \E pick \in Picks(World, stepDue) :
          Updated(update(World, stepDue, pick))
  /\ UNCHANGED <<log, steps>>

Next ==
  \/ RunSearchBtn
  \/ ResetBtn
  \/ RandBtn
  \/ DynBtn
  \/ SelectAlgo
  \/ SelectHeur
  \/ Paint
  \/ Update

Spec == Init /\ [][Next]_vars

(* ---------------------------------------------------------------------- *)
(* The App in dynamic mode on a painted grid: searches, periodic steps and *)
(* spawned obstacles, and no other wall edit                               *)
(* ---------------------------------------------------------------------- *)
InitDyn ==
  /\ grid \in Layouts
  /\ agent = NewAgent
  /\ app = NewApp
  /\ last = NoLast
  /\ log = <<>>
  /\ steps = -1

NextDyn ==
  \/ RunSearchBtn
  \/ DynBtn
  \/ SelectAlgo
  \/ SelectHeur
  \/ Update

SpecDyn == InitDyn /\ [][NextDyn]_vars

(* ---------------------------------------------------------------------- *)
(* Dynamic mode after one search: the Run button is pressed until a search *)
(* has handed a path to the agent, and from then on only the periodic      *)
(* _update runs (and the dropdowns and the dynamic-mode button); the       *)
(* step timer of _update comes due again and again                         *)
(* ---------------------------------------------------------------------- *)
RunOnce ==
  /\ agent.path = <<>>
  /\ RunSearchBtn

\* an _update whose step timer is due
StepTick ==
  /\ \E pick \in Picks(World, TRUE) : Updated(update(World, TRUE, pick))
  /\ UNCHANGED <<log, steps>>

NextLive ==
  \/ RunOnce
  \/ DynBtn
  \/ SelectAlgo
  \/ SelectHeur
  \/ Update

SpecLive == InitDyn /\ [][NextLive]_vars /\ WF_vars(StepTick)

(* ---------------------------------------------------------------------- *)
(* The App with its spawns watched: every handler of the App, where log    *)
(* holds "wall" from the moment the user paints a wall until the next      *)
(* search (a _run_search or a replan), and last keeps what was observed    *)
(* when _update spawned an obstacle                                        *)
(* ---------------------------------------------------------------------- *)
SpawnRun ==
  /\ Becomes(app_run_search(World))
  /\ last' = NoLast
  /\ log' = <<>>
  /\ UNCHANGED steps

SpawnPaint ==
  /\ \E rc \in DOMAIN grid.cells, drawing_wall \in BOOLEAN :
        /\ Becomes(paint(World, rc, drawing_wall))
        /\ log' = IF drawing_wall /\ paint(World, rc, drawing_wall).grid # grid
                  THEN <<"wall">>
                  ELSE log
  /\ last' = NoLast
  /\ UNCHANGED steps

SpawnUpdated(W) ==
  /\ Becomes(W)
  /\ last' = IF W.sp = <<>>
             THEN NoLast
             ELSE [op |-> "spawn", sp |-> W.sp, painted |-> log # <<>>]
  /\ log' = IF W.se = <<>> THEN log ELSE <<>>

SpawnUpdate ==
  /\ \E stepDue \in BOOLEAN :
       \E pick \in Picks(World, stepDue) :
          SpawnUpdated(update(World, stepDue, pick))
  /\ UNCHANGED steps

NextSpawn ==
  \/ SpawnRun
  \/ ResetBtn
  \/ RandBtn
  \/ DynBtn
  \/ SelectAlgo
  \/ SelectHeur
  \/ SpawnPaint
  \/ SpawnUpdate

SpecSpawn == Init /\ [][NextSpawn]_vars

(* ---------------------------------------------------------------------- *)
(* The Agent at the library level: any sequence of calls of its methods,   *)
(* on a one-row grid whose walls are placed and removed in between         *)
(* ---------------------------------------------------------------------- *)
AgentGrid == NewGrid(1, MaxPathLen)

\* the lists of cells handed to set_path and accept_replan: up to
\* MaxPathLen cells, none of them twice
Paths ==
  UNION {{p \in [1 .. n -> DOMAIN AgentGrid.cells] :
            \A i, j \in 1 .. n : i # j => p[i] # p[j]} : n \in 0 .. MaxPathLen}

WallOn(G, path) == \E i \in 1 .. Len(path) : G.cells[path[i]].cell_type = WALL

InitAgent ==
  /\ grid = AgentGrid
  /\ agent = NewAgent
  /\ app = NewApp
  /\ last = NoLast
  /\ log = <<>>
  /\ steps = -1

AgentSetPath ==
  /\ \E p \in Paths :
        /\ agent' = set_path(agent, p)
        /\ steps' = IF p # <<>> /\ ~WallOn(grid, p) THEN 0 ELSE -1
  /\ last' = [op |-> "event"]
  /\ UNCHANGED <<grid, app, log>>

AgentStep ==
  /\ agent' = step(agent, grid)
  /\ last' = [op |-> "step", ret |-> step_ret(agent, grid)]
  /\ steps' = IF steps < 0 THEN -1
              ELSE IF steps <= MaxPathLen THEN steps + 1 ELSE steps
  /\ UNCHANGED <<grid, app, log>>

\* the agent is Blocked: halted by step() in front of a Wall
Blocked(a) == ~a.moving /\ a.replanning

AgentAcceptReplan ==
  /\ \E p \in Paths :
        /\ agent' = accept_replan(agent, p)
        /\ last' = [op |-> "accept_replan", arg |-> p,
                    blocked |-> Blocked(agent)]
  /\ steps' = -1
  /\ UNCHANGED <<grid, app, log>>

AgentReset ==
  /\ agent' = agent_reset(agent)
  /\ last' = [op |-> "event"]
  /\ steps' = -1
  /\ UNCHANGED <<grid, app, log>>

AgentIsPathBlocked ==
  /\ last' = [op |-> "is_path_blocked", ret |-> is_path_blocked(agent, grid)]
  /\ UNCHANGED <<grid, agent, app, log, steps>>

AgentPlaceWall ==
  /\ \E rc \in DOMAIN grid.cells : grid' = place_wall(grid, rc[1], rc[2])
  /\ last' = [op |-> "event"]
  /\ steps' = IF steps >= 0 /\ ~WallOn(grid', agent.path) THEN steps ELSE -1
  /\ UNCHANGED <<agent, app, log>>

AgentRemoveWall ==
  /\ \E rc \in DOMAIN grid.cells : grid' = remove_wall(grid, rc[1], rc[2])
  /\ last' = [op |-> "event"]
  /\ UNCHANGED <<agent, app, log, steps>>

NextAgent ==
  \/ AgentSetPath
  \/ AgentStep
  \/ AgentAcceptReplan
  \/ AgentReset
  \/ AgentIsPathBlocked
  \/ AgentPlaceWall
  \/ AgentRemoveWall

SpecAgent == InitAgent /\ [][NextAgent]_vars

(* ---------------------------------------------------------------------- *)
(* The Agent together with the replanning coordinator: _do_replan is       *)
(* called where _update calls it, after a blocked step or when the         *)
(* remaining path holds a Wall                                             *)
(* ---------------------------------------------------------------------- *)
\* the paths a search can return on the one-row grid: walks between
\* adjacent cells, and the empty path
Walks ==
  {p \in Paths : \A i \in 1 .. Len(p) - 1 : Abs(p[i][2] - p[i + 1][2]) = 1}

CoordAcceptReplan ==
  /\ \E p \in Walks :
        /\ agent' = accept_replan(agent, p)
        /\ last' = [op |-> "accept_replan", arg |-> p,
                    blocked |-> Blocked(agent)]
  /\ steps' = -1
  /\ UNCHANGED <<grid, app, log>>

CoordSetPath ==
  /\ \E p \in Walks : agent' = set_path(agent, p)
  /\ last' = [op |-> "event"]
  /\ UNCHANGED <<grid, app, log, steps>>

CoordReset ==
  /\ agent' = agent_reset(agent)
  /\ last' = [op |-> "event"]
  /\ UNCHANGED <<grid, app, log, steps>>

CoordStep ==
  /\ agent' = step(agent, grid)
  /\ last' = [op |-> "step", ret |-> step_ret(agent, grid)]
  /\ UNCHANGED <<grid, app, log, steps>>

CoordPlaceWall ==
  /\ \E rc \in DOMAIN grid.cells : grid' = place_wall(grid, rc[1], rc[2])
  /\ last' = [op |-> "event"]
  /\ UNCHANGED <<agent, app, log, steps>>

CoordDoReplan ==
  /\ needs_replan(agent) \/ is_path_blocked(agent, grid)
  /\ Becomes(do_replan(World))
  /\ last' = [op |-> "do_replan", rp |-> do_replan(World).rp]
  /\ UNCHANGED <<log, steps>>

NextCoord ==
  \/ CoordSetPath
  \/ CoordReset
  \/ CoordAcceptReplan
  \/ CoordStep
  \/ CoordPlaceWall
  \/ CoordDoReplan

SpecCoord == InitAgent /\ [][NextCoord]_vars

(* ---------------------------------------------------------------------- *)
(* The Grid at the library level: a grid of any size up to Rows x Cols,    *)
(* fresh or after a first search, and any sequence of its operations       *)
(* ---------------------------------------------------------------------- *)
InitGrid ==
  /\ \E rows \in 1 .. Rows, cols \in 1 .. Cols :
        LET G == NewGrid(rows, cols) IN
        grid \in {G, run_search(G, "A* Search", "Manhattan").grid}
  /\ agent = NewAgent
  /\ app = NewApp
  /\ last = NoLast
  /\ log = <<>>
  /\ steps = -1

\* the coordinates handed to the wall operations: in and out of bounds
Coords == (-1 .. Rows) \X (-1 .. Cols)

GridChange(G, op, target) ==
  /\ WallCount(G) <= MaxWalls
  /\ grid' = G
  /\ last' = [op |-> op, target |-> target]
  /\ UNCHANGED <<agent, app, log, steps>>

GridPlaceWall ==
  \E rc \in Coords :
     GridChange(place_wall(grid, rc[1], rc[2]), "place_wall",
                get(grid, rc[1], rc[2]))

GridRemoveWall ==
  \E rc \in Coords :
     GridChange(remove_wall(grid, rc[1], rc[2]), "remove_wall",
                get(grid, rc[1], rc[2]))

GridToggleWall ==
  \E rc \in Coords :
     GridChange(toggle_wall(grid, rc[1], rc[2]), "toggle_wall",
                get(grid, rc[1], rc[2]))

\* the outcomes of the random draws of generate_random_maze on a grid of
\* d[1] x d[2] cells: the cells drawn as walls, MaxWalls of them at most
MazeWalls ==
  [d \in (1 .. Rows) \X (1 .. Cols) |->
     {w \in SUBSET (Positions(d[1], d[2]) \ {<<0, 0>>, <<d[1] - 1, d[2] - 1>>}) :
        Cardinality(w) <= MaxWalls}]

GridRandomMaze ==
  \E wall \in MazeWalls[<<grid.rows, grid.cols>>] :
     GridChange(generate_random_maze(grid, wall), "generate_random_maze", None)

GridFullReset == GridChange(full_reset(grid), "full_reset", None)

GridResetSearchState ==
  GridChange(reset_search_state(grid), "reset_search_state", None)

GridSpawn ==
  \/ \E pick \in candidates(grid) :
        GridChange(spawn_random_obstacle(grid, pick),
                   "spawn_random_obstacle", pick)
  \/ /\ candidates(grid) = {}
     /\ GridChange(grid, "spawn_random_obstacle", None)

NextGrid ==
  \/ GridPlaceWall
  \/ GridRemoveWall
  \/ GridToggleWall
  \/ GridRandomMaze
  \/ GridFullReset
  \/ GridResetSearchState
  \/ GridSpawn

SpecGrid == InitGrid /\ [][NextGrid]_vars

(* ---------------------------------------------------------------------- *)
(* The wall operations of the Grid called with any coordinates, in and     *)
(* out of bounds; last keeps the coordinates and what get returned there   *)
(* ---------------------------------------------------------------------- *)
GridWallOp(G, op, rc) ==
  /\ WallCount(G) <= MaxWalls
  /\ grid' = G
  /\ last' = [op |-> op, target |-> get(grid, rc[1], rc[2]), rc |-> rc]
  /\ UNCHANGED <<agent, app, log, steps>>

WallsPlace ==
  \E rc \in Coords : GridWallOp(place_wall(grid, rc[1], rc[2]), "place_wall", rc)

WallsRemove ==
  \E rc \in Coords : GridWallOp(remove_wall(grid, rc[1], rc[2]), "remove_wall", rc)

WallsToggle ==
  \E rc \in Coords : GridWallOp(toggle_wall(grid, rc[1], rc[2]), "toggle_wall", rc)

NextWalls ==
  \/ WallsPlace
  \/ WallsRemove
  \/ WallsToggle

SpecWalls == InitGrid /\ [][NextWalls]_vars

(* ---------------------------------------------------------------------- *)
(* The searches at the library level: on every wall layout of a grid of    *)
(* Rows x Cols cells, one replan (reset_search_state, then the search)     *)
(* from any cell, with either algorithm and either heuristic               *)
(* ---------------------------------------------------------------------- *)
AllLayouts ==
  {generate_random_maze(NewGrid(Rows, Cols), wall) :
     wall \in SUBSET (Positions(Rows, Cols)
                        \ {<<0, 0>>, <<Rows - 1, Cols - 1>>})}

InitSearch ==
  /\ grid \in AllLayouts
  /\ agent = NewAgent
  /\ app = NewApp
  /\ last = NoLast
  /\ log = <<>>
  /\ steps = -1

\* replan(grid, origin, grid.goal_cell, algo, hname) has returned
Searched(origin, algo, hname) ==
  LET s == replan(grid, origin, grid.goal_cell, algo, hname) IN
  /\ last.op # "search"
  /\ ~s.hung
  /\ grid' = s.grid
  /\ last' = [op |-> "search", algo |-> algo, heur |-> hname,
              origin |-> origin, res |-> s.result]
  /\ UNCHANGED <<agent, app, log, steps>>

SearchAstar ==
  \E origin \in DOMAIN grid.cells, hname \in HeuristicNames :
     Searched(origin, "A* Search", hname)

SearchGreedy ==
  \E origin \in DOMAIN grid.cells, hname \in HeuristicNames :
     Searched(origin, "Greedy BFS", hname)

SearchResetState ==
  /\ last.op = "search"
  /\ grid' = reset_search_state(grid)
  /\ last' = NoLast
  /\ UNCHANGED <<agent, app, log, steps>>

NextSearch ==
  \/ SearchAstar
  \/ SearchGreedy
  \/ SearchResetState

SpecSearch == InitSearch /\ [][NextSearch]_vars

(* ---------------------------------------------------------------------- *)
(* One search followed turn by turn: astar or greedy_bfs is called on the  *)
(* grid as it stands, from any origin, and runs one turn of its while loop *)
(* at a time until it returns; reset_search_state may be called between    *)
(* two searches, or not.  last.s is the search in progress; when the walk  *)
(* of _reconstruct_path has entered a cycle of parent links (s.hung),      *)
(* last.node is the cell the walk is at, and last.turns counts the turns   *)
(* of the while loop.  steps counts the searches made since the last       *)
(* reset_search_state.                                                     *)
(* ---------------------------------------------------------------------- *)
MaxRuns == 2

\* every cell's scratch state is as Cell.__init__ and reset_search set it
IsFresh(G) ==
  \A p \in DOMAIN G.cells : [G.cells[p] EXCEPT !.cell_type = EMPTY] = NewCell

InitRun ==
  /\ grid \in Layouts
  /\ agent = NewAgent
  /\ app = NewApp
  /\ last = NoLast
  /\ log = <<>>
  /\ steps = 0

\* the search enters its while loop in state s
RunEntered(algo, hname, origin, s) ==
  /\ last.op # "running"
  /\ steps < MaxRuns
  /\ grid' = s.grid
  /\ last' = [op |-> "running", algo |-> algo, heur |-> hname,
              origin |-> origin, fresh |-> IsFresh(grid), s |-> s,
              node |-> None, turns |-> 0]
  /\ steps' = steps + 1
  /\ UNCHANGED <<agent, app, log>>

RunAstar ==
  \E origin \in DOMAIN grid.cells, hname \in HeuristicNames :
     RunEntered("A* Search", hname, origin,
                astar_init(grid, origin, grid.goal_cell, hname))

RunGreedy ==
  \E origin \in DOMAIN grid.cells, hname \in HeuristicNames :
     RunEntered("Greedy BFS", hname, origin,
                greedy_init(grid, origin, grid.goal_cell, hname))

\* the search has made one more turn of its while loop and is in state s
RunTurned(s) ==
  /\ grid' = s.grid
  /\ last' = [last EXCEPT !.s = s,
                          !.node = IF s.hung THEN grid.goal_cell ELSE None,
                          !.turns = last.turns + 1]
  /\ UNCHANGED <<agent, app, log, steps>>

\* one turn of the while loop; `while heap` false ends the loop
RunTurn ==
  /\ last.op = "running"
  /\ ~last.s.done
  /\ ~last.s.hung
  /\ RunTurned(IF last.algo = "A* Search"
               THEN astar_step(last.s, grid.goal_cell, last.heur)
               ELSE greedy_step(last.s, grid.goal_cell, last.heur))

\* _reconstruct_path, `node = node.parent` on a cycle of parent links
RunWalk ==
  /\ last.op = "running"
  /\ last.s.hung
  /\ last' = [last EXCEPT !.node = grid.cells[last.node].parent]
  /\ UNCHANGED <<grid, agent, app, log, steps>>

\* `return result`
RunReturn ==
  /\ last.op = "running"
  /\ last.s.done
  /\ last' = [op |-> "returned", algo |-> last.algo, heur |-> last.heur,
              origin |-> last.origin, fresh |-> last.fresh,
              res |-> last.s.result, pushes |-> last.s.counter,
              turns |-> last.turns, exhausted |-> last.s.heap = {}]
  /\ UNCHANGED <<grid, agent, app, log, steps>>

RunResetState ==
  /\ last.op # "running"
  /\ grid' = reset_search_state(grid)
  /\ last' = NoLast
  /\ steps' = 0
  /\ UNCHANGED <<agent, app, log>>

NextRun ==
  \/ RunAstar
  \/ RunGreedy
  \/ RunTurn
  \/ RunWalk
  \/ RunReturn
  \/ RunResetState

SpecRun == InitRun /\ [][NextRun]_vars

(* ---------------------------------------------------------------------- *)
(* One search made twice: astar or greedy_bfs is called on reset scratch   *)
(* state and followed turn by turn, heappop returning any entry that no    *)
(* other precedes; reset_search_state is called, and the same search is    *)
(* made again.  last.order lists the cells in the order they were          *)
(* finalized and last.tied tells whether the frontier ever held two        *)
(* entries with the same priority key; log holds what each of the two      *)
(* searches returned.                                                      *)
(* ---------------------------------------------------------------------- *)
TwiceEntered(algo, hname, origin, s) ==
  /\ last.op # "running"
  /\ IsFresh(grid)
  /\ Len(log) < 2
  /\ log # <<>> => /\ algo = log[1].algo
                   /\ hname = log[1].heur
                   /\ origin = log[1].origin
  /\ grid' = s.grid
  /\ last' = [op |-> "running", algo |-> algo, heur |-> hname,
              origin |-> origin, s |-> s, order |-> <<>>, was |-> s,
              tied |-> FALSE]
  /\ UNCHANGED <<agent, app, log, steps>>

TwiceAstar ==
  \E origin \in DOMAIN grid.cells, hname \in HeuristicNames :
     TwiceEntered("A* Search", hname, origin,
                  astar_init(grid, origin, grid.goal_cell, hname))

TwiceGreedy ==
  \E origin \in DOMAIN grid.cells, hname \in HeuristicNames :
     TwiceEntered("Greedy BFS", hname, origin,
                  greedy_init(grid, origin, grid.goal_cell, hname))

\* the turn of the while loop that popped e has left the search in state
\* s; was keeps the state before the turn
TwiceTurned(e, s) ==
  /\ grid' = s.grid
  /\ last' = [last EXCEPT
                !.s = s,
                !.was = last.s,
                !.tied = \/ last.tied
                         \/ \E a \in s.heap, b \in s.heap :
                               a # b /\ a.key = b.key,
                !.order = IF s.result.nodes_visited
                              > last.s.result.nodes_visited
                          THEN Append(last.order, e.cell)
                          ELSE last.order]
  /\ UNCHANGED <<agent, app, log, steps>>

\* one turn of the while loop on a heap that holds entries
TwiceTurn ==
  /\ last.op = "running"
  /\ ~last.s.done
  /\ ~last.s.hung
  /\ \E e \in HeapMins(last.s.heap) :
        TwiceTurned(e, IF last.algo = "A* Search"
                       THEN astar_pop(last.s, e, grid.goal_cell, last.heur)
                       ELSE greedy_pop(last.s, e, grid.goal_cell, last.heur))

\* `while heap` is false, or the goal was popped: `return result`
TwiceReturn ==
  /\ last.op = "running"
  /\ last.s.done \/ last.s.heap = {}
  /\ last' = [op |-> "returned"]
  /\ log' = Append(log, [algo |-> last.algo, heur |-> last.heur,
                         origin |-> last.origin, res |-> last.s.result,
                         order |-> last.order, tied |-> last.tied])
  /\ UNCHANGED <<grid, agent, app, steps>>

TwiceResetState ==
  /\ last.op = "returned"
  /\ Len(log) < 2
  /\ grid' = reset_search_state(grid)
  /\ last' = NoLast
  /\ UNCHANGED <<agent, app, log, steps>>

NextTwice ==
  \/ TwiceAstar
  \/ TwiceGreedy
  \/ TwiceTurn
  \/ TwiceReturn
  \/ TwiceResetState

SpecTwice == InitRun /\ [][NextTwice]_vars

(* ---------------------------------------------------------------------- *)
(* reset_search_state and run_search called in any order on one grid, with *)
(* one algorithm and one heuristic; log holds what each call returned      *)
(* ---------------------------------------------------------------------- *)
InitReset ==
  /\ grid \in Layouts
  /\ agent = NewAgent
  /\ \E a \in AlgoNames, h \in HeuristicNames :
        app = [NewApp EXCEPT !.dd_algo = a, !.dd_heur = h]
  /\ last = NoLast
  /\ log = <<>>
  /\ steps = -1

ResetCall ==
  /\ Len(log) < MaxLog
  /\ grid' = reset_search_state(grid)
  /\ log' = Append(log, [op |-> "reset", res |-> NewSearchResult])
  /\ UNCHANGED <<agent, app, last, steps>>

RunCall ==
  LET s == run_search(grid, app.dd_algo, app.dd_heur) IN
  /\ Len(log) < MaxLog
  /\ ~s.hung
  /\ grid' = s.grid
  /\ log' = Append(log, [op |-> "run", res |-> s.result])
  /\ UNCHANGED <<agent, app, last, steps>>

NextReset ==
  \/ ResetCall
  \/ RunCall

SpecReset == InitReset /\ [][NextReset]_vars

(* ---------------------------------------------------------------------- *)
(* Reference definitions for the properties: plain breadth-first search    *)
(* over orthogonally adjacent non-Wall cells                               *)
(* ---------------------------------------------------------------------- *)
Adjacent(p, q) == Abs(p[1] - q[1]) + Abs(p[2] - q[2]) = 1

Walkable(G) == {p \in DOMAIN G.cells : G.cells[p].cell_type # WALL}

RECURSIVE BfsFrom(_, _, _, _, _)
BfsFrom(G, frontier, seen, d, goal) ==
  IF goal \in frontier THEN d
  ELSE IF frontier = {} THEN -1
  ELSE LET nxt == {q \in Walkable(G) \ seen :
                     \E p \in frontier : Adjacent(p, q)}
       IN BfsFrom(G, nxt, seen \cup nxt, d + 1, goal)

\* the length of a shortest path from origin to goal, -1 when there is none
BfsDist(G, origin, goal) == BfsFrom(G, {origin}, {origin}, 0, goal)

RECURSIVE Grow(_, _)
Grow(G, seen) ==
  LET nxt == seen \cup {q \in Walkable(G) : \E p \in seen : Adjacent(p, q)}
  IN IF nxt = seen THEN seen ELSE Grow(G, nxt)

\* the cells reachable from origin, origin included
ReachSet(G, origin) == Grow(G, {origin})

AfterSearch == last.op = "search"

(* ---------------------------------------------------------------------- *)
(* Properties                                                              *)
(* ---------------------------------------------------------------------- *)

\* the scenario of C3: A* with Manhattan on the empty 5 x 5 grid
EmptyFiveByFive ==
  run_search(reset_search_state(NewGrid(5, 5)), "A* Search", "Manhattan").result

\* C3: whenever the goal is reachable from the origin, astar run after
\* reset_search_state finds a path whose path_cost is the breadth-first
\* distance from the origin to the goal, with either heuristic; on the empty
\* 5 x 5 grid with Manhattan the cost is 8 and the path has 9 cells.
ThmC3 ==
  /\ (AfterSearch /\ last.algo = "A* Search"
        /\ BfsDist(grid, last.origin, grid.goal_cell) >= 0)
     => /\ last.res.found
        /\ last.res.path_cost = BfsDist(grid, last.origin, grid.goal_cell)
  /\ EmptyFiveByFive.found
  /\ EmptyFiveByFive.path_cost = 8
  /\ Len(EmptyFiveByFive.path) = 9

\* an A* search that had to leave the straight line: its path is longer
\* than the Manhattan distance
WitC3 ==
  /\ AfterSearch
  /\ last.algo = "A* Search"
  /\ last.res.found
  /\ last.res.path_cost > heuristic_manhattan(last.origin, grid.goal_cell)[1]

\* C4: on the same grid, origin, goal and heuristic, each search run on
\* reset scratch state, when greedy_bfs and astar both find a path the
\* greedy path_cost is at least the A* path_cost.
ThmC4 ==
  (AfterSearch /\ last.algo = "Greedy BFS" /\ last.res.found)
  => LET a == astar(reset_search_state(grid), last.origin, grid.goal_cell,
                    last.heur).result
     IN a.found => last.res.path_cost >= a.path_cost

WitC4 ==
  /\ AfterSearch
  /\ last.algo = "Greedy BFS"
  /\ last.res.found
  /\ last.res.path_cost > heuristic_manhattan(last.origin, grid.goal_cell)[1]
  /\ astar(reset_search_state(grid), last.origin, grid.goal_cell,
           last.heur).result.found

\* C5: when walls cut Start off from Goal, a search from Start (astar or
\* greedy_bfs, after reset_search_state) returns found = false and an empty
\* path, and nodes_visited is the number of cells reachable from Start.
ThmC5 ==
  (AfterSearch /\ last.origin = grid.start_cell
     /\ BfsDist(grid, grid.start_cell, grid.goal_cell) < 0)
  => /\ ~last.res.found
     /\ last.res.path = <<>>
     /\ last.res.nodes_visited = Cardinality(ReachSet(grid, grid.start_cell))

WitC5 ==
  /\ AfterSearch
  /\ last.origin = grid.start_cell
  /\ ~last.res.found
  /\ last.res.nodes_visited >= 2
  /\ last.res.nodes_visited < Cardinality(Walkable(grid))

\* the returned path leads from origin to goal by steps between adjacent
\* cells, visits no cell twice, and path_cost counts its steps
PathShape(res, origin, goal) ==
  /\ res.path # <<>>
  /\ res.path[1] = origin
  /\ res.path[Len(res.path)] = goal
  /\ \A i, j \in 1 .. Len(res.path) : i # j => res.path[i] # res.path[j]
  /\ \A i \in 1 .. Len(res.path) - 1 : Adjacent(res.path[i], res.path[i + 1])
  /\ res.path_cost = Len(res.path) - 1

\* C9 as stated: whenever a search on reset scratch state returns found,
\* the path starts at the origin, ends at the goal, holds no Wall cell and
\* no cell twice, consecutive cells are adjacent, and path_cost is
\* len(path) - 1.
CexC9 ==
  (AfterSearch /\ last.res.found)
  => /\ PathShape(last.res, last.origin, grid.goal_cell)
     /\ ~WallOn(grid, last.res.path)

\* C9 as amended: the same, but only the cells after the first are free of
\* Walls: the origin is on the path also when it is a Wall cell.
ThmC9 ==
  (AfterSearch /\ last.res.found)
  => /\ PathShape(last.res, last.origin, grid.goal_cell)
     /\ ~WallOn(grid, Tail(last.res.path))

WitC9 ==
  /\ AfterSearch
  /\ last.res.found
  /\ Len(last.res.path) >= 4
  /\ WallCount(grid) >= 1

\* C1: whenever App._do_replan returns, found or not, the unconsumed
\* suffix agent.path[path_index+1:] holds no Wall cell (every replan that
\* an _update made left is_path_blocked false).
CexC1 ==
  last.op = "update" => \A i \in DOMAIN last.rp : ~last.rp[i].blocked

\* the cells of the agent's path from the current index onward
PathFromIndex == SubSeq(agent.path, agent.path_index + 1, Len(agent.path))

\* C2: from a successful run_search handed to the Agent, through any
\* sequence of agent steps and of spawn_random_obstacle calls each followed
\* by the is_path_blocked check and _do_replan, with no other wall edit, no
\* cell of agent.path[path_index:] is a Wall.
ThmC2 == agent.path # <<>> => ~WallOn(grid, PathFromIndex)

\* an obstacle was spawned on a cell the last search had reached, and the
\* agent is under way on its path
WitC2 ==
  /\ agent.moving
  /\ agent.path_index >= 1
  /\ \E p \in DOMAIN grid.cells :
        grid.cells[p].cell_type = WALL /\ grid.cells[p].g < Inf

\* the calls of log that are a run_search made right after a
\* reset_search_state
RunsAfterReset ==
  {i \in 2 .. Len(log) : log[i].op = "run" /\ log[i - 1].op = "reset"}

\* C6 as stated: after reset_search_state is called twice in a row, two
\* calls of run_search with the same grid, algorithm and heuristic return
\* identical SearchResult values.
CexC6 ==
  \A i \in 1 .. Len(log) - 3 :
     (log[i].op = "reset" /\ log[i + 1].op = "reset"
        /\ log[i + 2].op = "run" /\ log[i + 3].op = "run")
     => log[i + 2].res = log[i + 3].res

\* C6 as amended: two calls of run_search with the same grid, algorithm
\* and heuristic, each made right after reset_search_state was called
\* (once, or twice in a row), return identical SearchResult values.
ThmC6 == \A i, j \in RunsAfterReset : log[i].res = log[j].res

\* reset twice, run, reset, run: the second run starts from the scratch
\* state the first one left and the reset restored
WitC6 ==
  /\ Len(log) = 5
  /\ log[1].op = "reset" /\ log[2].op = "reset" /\ log[3].op = "run"
  /\ log[4].op = "reset" /\ log[5].op = "run"
  /\ log[5].res.found
  /\ WallCount(grid) >= 1

\* what `steps` calls of step() after set_path of a wall-free path of
\* n >= 1 cells have made of the agent
C7State ==
  steps >= 0 =>
    LET n == Len(agent.path) IN
    /\ n >= 1
    /\ steps < n =>
         /\ agent.path_index = steps
         /\ agent.cell = agent.path[steps + 1]
         /\ agent.moving
         /\ ~agent.reached_goal
         /\ (last.op = "step" /\ steps >= 1) => last.ret
    /\ steps >= n =>
         /\ agent.path_index = n - 1
         /\ agent.cell = agent.path[n]
         /\ ~agent.moving
         /\ agent.reached_goal
         /\ last.op = "step" => ~last.ret

\* a step() call made once the agent has arrived
C7Further ==
  (steps >= 0 /\ steps >= Len(agent.path) /\ last'.op = "step")
  => /\ agent' = agent
     /\ ~last'.ret

\* C7: after set_path of a path of n >= 1 cells with no Wall on it, the
\* first n-1 step() calls return true and advance path_index by one each,
\* agent.cell following; the n-th returns false and leaves the agent
\* arrived (moving false, reached_goal true); every further step() call
\* returns false and changes no field of the agent.
ThmC7 == []C7State /\ [][C7Further]_vars

\* the agent has walked a path of MaxPathLen cells, arrived, and step()
\* was called once more
WitC7 ==
  /\ Len(agent.path) = MaxPathLen
  /\ steps = MaxPathLen + 1
  /\ agent.reached_goal
  /\ last.op = "step"

CountKind(G, kind) ==
  Cardinality({p \in DOMAIN G.cells : G.cells[p].cell_type = kind})

StartGoalKept ==
  /\ CountKind(grid, START) = 1
  /\ CountKind(grid, GOAL) = 1
  /\ grid.start_cell = <<0, 0>>
  /\ grid.cells[grid.start_cell].cell_type = START
  /\ grid.goal_cell = <<grid.rows - 1, grid.cols - 1>>
  /\ grid.cells[grid.goal_cell].cell_type = GOAL

\* C8 as stated: on every Grid(rows, cols) with rows, cols >= 1, after any
\* sequence of the wall operations, maze generation, resets and spawns,
\* exactly one cell is Start and one is Goal, start_cell is the Start cell
\* at (0,0), goal_cell the Goal cell at (rows-1, cols-1), neither a Wall.
CexC8 == StartGoalKept

\* C8 as amended: the same on every grid of at least two cells.
ThmC8 == grid.rows * grid.cols >= 2 => StartGoalKept

\* place_wall was called on the Start cell or toggle_wall on the Goal cell
\* of a grid that holds walls
WitC8 ==
  /\ grid.rows * grid.cols >= 2
  /\ WallCount(grid) >= 1
  /\ \/ last.op = "place_wall" /\ last.target = grid.start_cell
     \/ last.op = "toggle_wall" /\ last.target = grid.goal_cell

\* the next cell of a moving agent's path is a Wall
FacesWall ==
  /\ agent.moving
  /\ agent.path # <<>>
  /\ agent.path_index + 1 < Len(agent.path)
  /\ grid.cells[agent.path[agent.path_index + 2]].cell_type = WALL

\* C10: when a moving agent calls step() and the next cell of its path is
\* a Wall, moving becomes false and replanning true, step() returns false,
\* and path, path_index and agent.cell (and the grid) are unchanged.
ThmC10 ==
  [][(FacesWall /\ last'.op = "step")
     => /\ ~agent'.moving
        /\ agent'.replanning
        /\ ~last'.ret
        /\ agent'.path = agent.path
        /\ agent'.path_index = agent.path_index
        /\ agent'.cell = agent.cell
        /\ agent'.reached_goal = agent.reached_goal
        /\ grid' = grid]_vars

\* step() has just halted an agent that had advanced, in front of a Wall
WitC10 ==
  /\ last.op = "step"
  /\ ~last.ret
  /\ agent.replanning
  /\ ~agent.moving
  /\ agent.path_index >= 1
  /\ agent.path_index + 1 < Len(agent.path)
  /\ grid.cells[agent.path[agent.path_index + 2]].cell_type = WALL

\* C11: from Blocked, accept_replan(newPath) with a non-empty newPath
\* leaves moving true, replanning false, path = newPath, path_index = 0
\* and cell = newPath[0]; accept_replan([]) leaves no path, moving false
\* and replanning false; and when a replan finds no path _do_replan leaves
\* the agent not moving.
ThmC11 ==
  /\ (last.op = "accept_replan" /\ last.blocked /\ last.arg # <<>>)
     => /\ agent.moving
        /\ ~agent.replanning
        /\ agent.path = last.arg
        /\ agent.path_index = 0
        /\ agent.cell = last.arg[1]
  /\ (last.op = "accept_replan" /\ last.blocked /\ last.arg = <<>>)
     => /\ agent.path = <<>>
        /\ ~agent.moving
        /\ ~agent.replanning
  /\ last.op = "do_replan"
     => \A i \in DOMAIN last.rp :
           ~last.rp[i].found => ~last.rp[i].agent.moving /\ ~agent.moving

\* a Blocked agent was handed a new path of several cells
WitC11 ==
  /\ last.op = "accept_replan"
  /\ last.blocked
  /\ Len(last.arg) >= 2
  /\ agent.moving

\* C12: through any sequence of set_path, step, accept_replan and reset
\* (and of replans by the coordinator), whenever the agent's path is
\* non-empty, 0 <= path_index < len(path) and agent.cell is
\* path[path_index]; and after a replan that found a path, the first cell
\* of the new path is the cell the agent stood on before the replan.
ThmC12 ==
  /\ agent.path # <<>>
     => /\ 0 <= agent.path_index
        /\ agent.path_index < Len(agent.path)
        /\ agent.cell = agent.path[agent.path_index + 1]
  /\ last.op = "do_replan"
     => \A i \in DOMAIN last.rp :
           last.rp[i].found
           => /\ last.rp[i].agent.path[1] = last.rp[i].was_on
              /\ last.rp[i].agent.cell = last.rp[i].was_on

\* a replan found a path for an agent that had left the Start cell
WitC12 ==
  /\ last.op = "do_replan"
  /\ last.rp # <<>>
  /\ last.rp[1].found
  /\ last.rp[1].was_on # grid.start_cell
  /\ agent.cell = last.rp[1].was_on

\* C13: when a replan finds a path, _do_replan leaves the metrics'
\* nodes-visited value at its previous value plus the search's
\* nodes_visited, and the metrics' path-cost value at its previous value
\* plus the search's path_cost.
CexC13 ==
  last.op = "update"
  => \A i \in DOMAIN last.rp :
        last.rp[i].found
        => /\ last.rp[i].after.nodes_visited =
                last.rp[i].before.nodes_visited + last.rp[i].res.nodes_visited
           /\ last.rp[i].after.path_cost =
                last.rp[i].before.path_cost + last.rp[i].res.path_cost

\* the cells that are Empty and not marked on_path
Eligible(G) ==
  {p \in DOMAIN G.cells :
     G.cells[p].cell_type = EMPTY /\ G.cells[p].on_path = FALSE}

\* C14: spawn_random_obstacle either returns a cell that was Empty and not
\* on_path before the call and is a Wall after it, every other cell's kind
\* and all scratch state unchanged, or returns none and leaves the grid
\* unchanged; it returns none exactly when no Empty, non-on_path cell
\* exists.
ThmC14 ==
  [][last'.op = "spawn_random_obstacle"
     => /\ (last'.target = None) <=> (Eligible(grid) = {})
        /\ last'.target = None => grid' = grid
        /\ last'.target # None
           => /\ last'.target \in Eligible(grid)
              /\ grid'.cells[last'.target].cell_type = WALL
              /\ grid' = [grid EXCEPT !.cells[last'.target].cell_type = WALL]
              /\ \A p \in DOMAIN grid.cells \ {last'.target} :
                    grid'.cells[p] = grid.cells[p]]_vars

\* an obstacle was spawned on a grid that holds the marks of a search, on a
\* cell the search had reached
WitC14 ==
  /\ last.op = "spawn_random_obstacle"
  /\ last.target # None
  /\ grid.cells[last.target].cell_type = WALL
  /\ grid.cells[last.target].g < Inf
  /\ \E p \in DOMAIN grid.cells : grid.cells[p].on_path

WallOps == {"place_wall", "remove_wall", "toggle_wall"}

InBounds(G, rc) ==
  rc[1] >= 0 /\ rc[1] < G.rows /\ rc[2] >= 0 /\ rc[2] < G.cols

\* the grid G with the kind of the cell rc set to kind and nothing else
\* changed
WithKind(G, rc, kind) == [G EXCEPT !.cells[rc].cell_type = kind]

\* C15: for coordinates outside [0,rows) x [0,cols), negative ones
\* included, get returns none and place_wall, remove_wall and toggle_wall
\* leave every cell unchanged; for an in-bounds target that is Start or
\* Goal, place_wall and remove_wall leave the grid unchanged, otherwise
\* place_wall sets and remove_wall clears the Wall kind of exactly that
\* cell.
ThmC15 ==
  [][last'.op \in WallOps
     => LET rc == last'.rc IN
        /\ ~InBounds(grid, rc) => last'.target = None /\ grid' = grid
        /\ InBounds(grid, rc)
           => /\ last'.target = rc
              /\ LET kind == grid.cells[rc].cell_type IN
                 /\ (last'.op = "place_wall" /\ kind \in {START, GOAL})
                    => grid' = grid
                 /\ (last'.op = "remove_wall" /\ kind \in {START, GOAL})
                    => grid' = grid
                 /\ (last'.op = "place_wall" /\ kind \notin {START, GOAL})
                    => grid' = WithKind(grid, rc, WALL)
                 /\ (last'.op = "remove_wall" /\ kind = WALL)
                    => grid' = WithKind(grid, rc, EMPTY)
                 /\ (last'.op = "remove_wall" /\ kind = EMPTY)
                    => grid' = grid]_vars

\* place_wall was called with a negative row on a grid that holds a Wall
WitC15 ==
  /\ last.op = "place_wall"
  /\ last.rc[1] < 0
  /\ last.target = None
  /\ WallCount(grid) >= 1

\* C16: in every execution of the App, each invocation of astar or
\* greedy_bfs, by the Run button or by a replan, begins with every cell's
\* scratch state at its initial value (g infinite, h = 0, f infinite, no
\* parent, in_open, in_closed and on_path false).
ThmC16 ==
  last.op \in {"run_search", "update"}
  => \A i \in DOMAIN last.se : last.se[i].fresh

\* a replan searched a grid that holds walls, after the search of the Run
\* button had left its marks on it
WitC16 ==
  /\ last.op = "update"
  /\ last.se # <<>>
  /\ last.se[1].fresh
  /\ WallCount(grid) >= 1
  /\ app.metrics.nodes_visited >= 2

\* C17: for astar and greedy_bfs run on reset scratch state from any
\* origin, found is true if and only if the goal can be reached from the
\* origin through orthogonally adjacent non-Wall cells; when it cannot,
\* found is false and the path is empty.
ThmC17 ==
  AfterSearch
  => /\ last.res.found <=> BfsDist(grid, last.origin, grid.goal_cell) >= 0
     /\ BfsDist(grid, last.origin, grid.goal_cell) < 0
        => ~last.res.found /\ last.res.path = <<>>

\* a greedy search from a cell other than Start that ended without
\* reaching the goal
WitC17 ==
  /\ AfterSearch
  /\ last.algo = "Greedy BFS"
  /\ last.origin # grid.start_cell
  /\ ~last.res.found
  /\ last.res.nodes_visited >= 2

\* C18: in every state the App can reach, at most one of the agent's flags
\* moving, replanning and reached_goal is true (the agent is Idle, Moving,
\* Blocked or Arrived), and moving implies a non-empty path.
ThmC18 ==
  /\ ~(agent.moving /\ agent.replanning)
  /\ ~(agent.moving /\ agent.reached_goal)
  /\ ~(agent.replanning /\ agent.reached_goal)
  /\ agent.moving => agent.path # <<>>

\* the agent is Blocked after a step of its own, part of its path behind it
WitC18 ==
  /\ agent.replanning
  /\ ~agent.moving
  /\ ~agent.reached_goal
  /\ agent.path_index >= 1

\* C19: after a successful run_search handed to the Agent, with the
\* periodic agent step scheduled fairly and no topology change but the
\* obstacles spawned in dynamic mode, the agent eventually is Arrived:
\* reached_goal is true and agent.cell is the grid's Goal cell.
ThmC19 ==
  (agent.path # <<>>)
  ~> (agent.reached_goal /\ ~agent.moving /\ agent.cell = grid.goal_cell)

\* the agent has arrived on a grid where an obstacle was spawned on a cell
\* the search had reached
WitC19 ==
  /\ agent.reached_goal
  /\ agent.cell = grid.goal_cell
  /\ Len(agent.path) >= 4
  /\ \E p \in DOMAIN grid.cells :
        grid.cells[p].cell_type = WALL /\ grid.cells[p].g < Inf

\* C20: whenever the agent is moving, every cell of its path is marked
\* on_path or is the Start or the Goal cell; the wall that a spawn of
\* _update makes is never a cell of the agent's path; and is_path_blocked()
\* answers true right after a spawn only if the user painted a wall since
\* the last search
ThmC20 ==
  /\ agent.moving =>
        \A i \in 1 .. Len(agent.path) :
           \/ grid.cells[agent.path[i]].on_path
           \/ grid.cells[agent.path[i]].cell_type \in {START, GOAL}
  /\ last.op = "spawn" =>
        \A k \in 1 .. Len(last.sp) :
           /\ ~last.sp[k].in_path
           /\ last.sp[k].blocked => last.painted /\ ~last.sp[k].searched

\* a spawn was made while a painted wall lay ahead on the agent's path:
\* is_path_blocked() answered true after it, and the replan put the agent
\* on a new path
WitC20 ==
  /\ last.op = "spawn"
  /\ last.sp[1].blocked
  /\ last.painted
  /\ agent.moving
  /\ Len(agent.path) >= 2

\* the pushes a search can make on grid G: each cell pushes to at most its
\* four neighbours each time it is finalized
PushBound(G) == 4 * G.rows * G.cols

\* the turns the while loop of a search can make on grid G: each turn but
\* the last pops one entry, and the entries are the first one and the
\* pushes counted by the insertion counter
TurnBound(G) == PushBound(G) + 2

\* C21 as stated: every call of astar and of greedy_bfs returns (its while
\* loop makes a bounded number of turns and the walk of _reconstruct_path
\* ends), with found = TRUE or else with the frontier exhausted, after a
\* bounded number of pushes
CexC21 ==
  /\ last.op = "running" =>
        /\ ~last.s.hung
        /\ last.turns <= TurnBound(grid)
        /\ last.s.counter <= PushBound(grid)
  /\ last.op = "returned" => last.res.found \/ last.exhausted

\* C21, amended: every call of astar and of greedy_bfs made on a grid whose
\* scratch state is reset returns (its while loop makes a bounded number of
\* turns and the walk of _reconstruct_path ends), with found = TRUE or else
\* with the frontier exhausted, after a bounded number of pushes
ThmC21 ==
  /\ last.op = "running" /\ last.fresh =>
        /\ ~last.s.hung
        /\ last.turns <= TurnBound(grid)
        /\ last.s.counter <= PushBound(grid)
  /\ last.op = "returned" /\ last.fresh => last.res.found \/ last.exhausted

\* a search on reset scratch state returned found = FALSE with its frontier
\* exhausted after it had pushed entries
WitC21 ==
  /\ last.op = "returned"
  /\ last.fresh
  /\ ~last.res.found
  /\ last.exhausted
  /\ last.pushes >= 2

\* the sequence numbers of the entries of a heap
Seqs(heap) == {e.seq : e \in heap}

\* C22: within one search every push takes a sequence number above all
\* those given before, so the entries of the frontier carry distinct
\* sequence numbers and heappop has one entry to return, the oldest of
\* those with the smallest key; and the same search made twice on reset
\* scratch state finalizes the cells in the same order and returns the
\* same path, nodes_visited and path_cost
ThmC22 ==
  /\ last.op = "running" =>
        /\ last.s.counter >= last.was.counter
        /\ \A e \in last.s.heap \ last.was.heap :
              /\ e.seq > last.was.counter
              /\ e.seq <= last.s.counter
        /\ Cardinality(Seqs(last.s.heap)) = Cardinality(last.s.heap)
        /\ last.s.heap # {} =>
              /\ Cardinality(HeapMins(last.s.heap)) = 1
              /\ \A e \in HeapMins(last.s.heap), o \in last.s.heap :
                    o.key = e.key => e.seq <= o.seq
  /\ Len(log) = 2 =>
        /\ log[2].order = log[1].order
        /\ log[2].res = log[1].res

\* the same search was made twice and found a path of three steps or more,
\* with entries of the same priority key together in the frontier
WitC22 ==
  /\ Len(log) = 2
  /\ log[2].res.found
  /\ log[2].res.path_cost >= 3
  /\ log[2].tied
  /\ log[1].algo = log[2].algo
====
